---- MODULE Spec2Model ----
(***************************************************************************)
(* Model of the FastMCP hackathon server (server.py, main.py) and of the   *)
(* way tests/test_server.py drives it.                                     *)
(*                                                                         *)
(* One Python process executes the module bodies top to bottom.  pc is the *)
(* source line about to be executed ("server:13" is line 13 of server.py). *)
(* Once the server module body has been executed, the registered handlers  *)
(* are called by the protocol runtime (while app.run() blocks) or by the   *)
(* test functions, for any number of clients in any interleaving.          *)
(*                                                                         *)
(* The two long string literals of server.py are written as abbreviated    *)
(* strings: the program only stores and returns them, it never inspects    *)
(* their characters.                                                       *)
(***************************************************************************)
EXTENDS Naturals, Sequences, FiniteSets

VARIABLES
    entry,               \* the file the interpreter was started on
    pc,                  \* next source line of the single startup thread
    serverName,          \* __name__ of the server module, once it is being executed
    app,                 \* server.app (module global), NoApp before line 13
    HACKATHON_MARKDOWN,  \* server.HACKATHON_MARKDOWN (module global)
    PROMPT_TEMPLATE,     \* server.PROMPT_TEMPLATE (module global)
    registry,            \* descriptors registered on app, in registration order
    runCount,            \* number of times app.run() has been started
    runSite,             \* the line whose app.run() call is currently blocking
    pending,             \* per client: the call in flight ("idle" if none)
    log                  \* completed calls, oldest first: [client, op, raised, result]

vars == <<entry, pc, serverName, app, HACKATHON_MARKDOWN, PROMPT_TEMPLATE,
          registry, runCount, runSite, pending, log>>

(* ------------------------------ bounds --------------------------------- *)

NumClients == 2
MaxCalls == 3

Clients == 1..NumClients

(* ---------------------------- source literals -------------------------- *)

Undefined == "<undefined>"

APP_NAME == "fastmcp-hackathon"

APP_DESCRIPTION == "Provides the hackathon overview markdown and a starter prompt for building FastMCP servers with Python."

HackathonMarkdownText == "## Overview [...] Keep the scope tight. Make it work in Cursor. Demo proudly."

PromptTemplateText == "You are developing a new FastMCP server in Python. [...] so the server is demo-ready."

AssistantText == "You are an expert FastMCP engineer helping a developer build a Python MCP server that integrates cleanly with Cursor."

ResourceUri == "resource://hackathon-overview"

PromptName == "fastmcp-python-starter"

Entries == {"main.py", "server.py", "test_server.py"}

(* ------------------------- values built by the code -------------------- *)

\* The value of the name app before line 13 has bound it.
NoApp == [name |-> Undefined, instructions |-> Undefined]

\* app = FastMCP(name=APP_NAME, instructions=APP_DESCRIPTION)
NewAppSwapped == [name |-> APP_DESCRIPTION, instructions |-> APP_NAME]

NewApp == [name |-> APP_NAME, instructions |-> APP_DESCRIPTION]

\* The descriptor the @app.resource(...) decorator call builds.
ResourceDescriptorPlain ==
    [kind |-> "resource", identifier |-> ResourceUri,
     name |-> "hackathon_overview",
     description |-> "Markdown overview for the MCP hackathon",
     mime_type |-> "text/plain"]

ResourceDescriptor ==
    [kind |-> "resource", identifier |-> ResourceUri,
     name |-> "Hackathon Overview",
     description |-> "Markdown overview for the MCP hackathon",
     mime_type |-> "text/markdown"]

\* The descriptor the @app.prompt(...) decorator call builds.
PromptDescriptor ==
    [kind |-> "prompt", identifier |-> PromptName,
     name |-> PromptName,
     description |-> "Prompt template for building FastMCP servers with Python",
     mime_type |-> Undefined]

\* Message(role=..., content=...): a role-tagged message with a text content.
Message(role, content) ==
    [role |-> role, content |-> [type |-> "text", text |-> content]]

(* ------------------------------ handlers ------------------------------- *)

\* The handlers read the module globals when they are called, not when they
\* are registered; a call made before the global is bound raises NameError
\* (recorded in the log entry's "raised" field).

\* def hackathon_overview() -> str: return HACKATHON_MARKDOWN
hackathon_overview_wrong_global == PROMPT_TEMPLATE

hackathon_overview == HACKATHON_MARKDOWN

\* def fastmcp_python_prompt() -> list[PromptMessage]
fastmcp_python_prompt_swapped ==
    << Message("user", PROMPT_TEMPLATE),
       Message("assistant", AssistantText) >>

fastmcp_python_prompt ==
    << Message("assistant", AssistantText),
       Message("user", PROMPT_TEMPLATE) >>

(* ------------------------------- startup ------------------------------- *)

Init ==
    /\ entry \in Entries
    /\ pc = CASE entry = "main.py" -> "main:3"
              [] entry = "server.py" -> "server:13"
              [] entry = "test_server.py" -> "test:5"
    /\ serverName = IF entry = "server.py" THEN "__main__" ELSE Undefined
    /\ app = NoApp
    /\ HACKATHON_MARKDOWN = Undefined
    /\ PROMPT_TEMPLATE = Undefined
    /\ registry = << >>
    /\ runCount = 0
    /\ runSite = "none"
    /\ pending = [c \in Clients |-> "idle"]
    /\ log = << >>

\* main.py line 3: from server import app (executes the server module body)
MainImport ==
    /\ pc = "main:3"
    /\ serverName' = "server"
    /\ pc' = "server:13"
    /\ UNCHANGED <<entry, app, HACKATHON_MARKDOWN, PROMPT_TEMPLATE, registry,
                   runCount, runSite, pending, log>>

\* tests/test_server.py line 5: import server
TestImport ==
    /\ pc = "test:5"
    /\ serverName' = "server"
    /\ pc' = "server:13"
    /\ UNCHANGED <<entry, app, HACKATHON_MARKDOWN, PROMPT_TEMPLATE, registry,
                   runCount, runSite, pending, log>>

\* server.py line 13
ServerApp ==
    /\ pc = "server:13"
    /\ app' = NewApp
    /\ pc' = "server:15"
    /\ UNCHANGED <<entry, serverName, HACKATHON_MARKDOWN, PROMPT_TEMPLATE,
                   registry, runCount, runSite, pending, log>>

\* server.py lines 15-132
ServerMarkdown ==
    /\ pc = "server:15"
    /\ HACKATHON_MARKDOWN' = HackathonMarkdownText
    /\ pc' = "server:134"
    /\ UNCHANGED <<entry, serverName, app, PROMPT_TEMPLATE, registry,
                   runCount, runSite, pending, log>>

\* server.py lines 134-147
ServerTemplate ==
    /\ pc = "server:134"
    /\ PROMPT_TEMPLATE' = PromptTemplateText
    /\ pc' = "server:149"
    /\ UNCHANGED <<entry, serverName, app, HACKATHON_MARKDOWN, registry,
                   runCount, runSite, pending, log>>

\* server.py lines 149-157: the decorator registers the resource on app
ServerResource ==
    /\ pc = "server:149"
    /\ registry' = Append(registry, ResourceDescriptor)
    /\ pc' = "server:160"
    /\ UNCHANGED <<entry, serverName, app, HACKATHON_MARKDOWN, PROMPT_TEMPLATE,
                   runCount, runSite, pending, log>>

\* server.py lines 160-175: the decorator registers the prompt on app
ServerPrompt ==
    /\ pc = "server:160"
    /\ registry' = Append(registry, PromptDescriptor)
    /\ pc' = "server:178"
    /\ UNCHANGED <<entry, serverName, app, HACKATHON_MARKDOWN, PROMPT_TEMPLATE,
                   runCount, runSite, pending, log>>

\* Where control goes when the server module body ends.
AfterServerModule ==
    CASE entry = "main.py" -> "main:11"
      [] entry = "server.py" -> "exit"
      [] entry = "test_server.py" -> "test:run"

\* server.py line 178: if __name__ == "__main__"
ServerIsMainAlways == TRUE

ServerIsMain == serverName = "__main__"

ServerGuard ==
    /\ pc = "server:178"
    /\ pc' = IF ServerIsMain THEN "server:179" ELSE AfterServerModule
    /\ UNCHANGED <<entry, serverName, app, HACKATHON_MARKDOWN, PROMPT_TEMPLATE,
                   registry, runCount, runSite, pending, log>>

\* server.py line 179: app.run() blocks until the runtime shuts down
ServerRun ==
    /\ pc = "server:179"
    /\ runCount' = runCount + 1
    /\ runSite' = "server:179"
    /\ pc' = "serving"
    /\ UNCHANGED <<entry, serverName, app, HACKATHON_MARKDOWN, PROMPT_TEMPLATE,
                   registry, pending, log>>

\* main.py line 11: if __name__ == "__main__"
MainIsMain == entry = "main.py"

MainGuard ==
    /\ pc = "main:11"
    /\ pc' = IF MainIsMain THEN "main:8" ELSE "exit"
    /\ UNCHANGED <<entry, serverName, app, HACKATHON_MARKDOWN, PROMPT_TEMPLATE,
                   registry, runCount, runSite, pending, log>>

\* main.py lines 6-8: main() calls app.run()
MainRun ==
    /\ pc = "main:8"
    /\ runCount' = runCount + 1
    /\ runSite' = "main:8"
    /\ pc' = "serving"
    /\ UNCHANGED <<entry, serverName, app, HACKATHON_MARKDOWN, PROMPT_TEMPLATE,
                   registry, pending, log>>

\* app.run() returns: the statement after the call site is executed next
Shutdown ==
    /\ pc = "serving"
    /\ pc' = IF runSite = "server:179" THEN AfterServerModule ELSE "exit"
    /\ runSite' = "none"
    /\ UNCHANGED <<entry, serverName, app, HACKATHON_MARKDOWN, PROMPT_TEMPLATE,
                   registry, runCount, pending, log>>

\* the test session ends
TestDone ==
    /\ pc = "test:run"
    /\ pc' = "exit"
    /\ UNCHANGED <<entry, serverName, app, HACKATHON_MARKDOWN, PROMPT_TEMPLATE,
                   registry, runCount, runSite, pending, log>>

(* ------------------------------- requests ------------------------------ *)

\* Handlers are called while app.run() is blocking, or by the test functions.
Callable == pc \in {"serving", "test:run"}

InFlight == Cardinality({c \in Clients : pending[c] # "idle"})

\* a caller starts resource.read() or prompt.render()
Call(c, op) ==
    /\ Callable
    /\ pending[c] = "idle"
    /\ Len(log) + InFlight < MaxCalls
    /\ pending' = [pending EXCEPT ![c] = op]
    /\ UNCHANGED <<entry, pc, serverName, app, HACKATHON_MARKDOWN,
                   PROMPT_TEMPLATE, registry, runCount, runSite, log>>

\* resource.read() runs hackathon_overview() and returns its value
ResourceReadClobbers(c) ==
    /\ Callable
    /\ pending[c] = "read"
    /\ log' = Append(log, [client |-> c, op |-> "read",
                            raised |-> HACKATHON_MARKDOWN = Undefined,
                            result |-> hackathon_overview])
    /\ pending' = [pending EXCEPT ![c] = "idle"]
    /\ HACKATHON_MARKDOWN' = ""
    /\ UNCHANGED <<entry, pc, serverName, app, PROMPT_TEMPLATE, registry,
                   runCount, runSite>>

ResourceRead(c) ==
    /\ Callable
    /\ pending[c] = "read"
    /\ log' = Append(log, [client |-> c, op |-> "read",
                            raised |-> HACKATHON_MARKDOWN = Undefined,
                            result |-> hackathon_overview])
    /\ pending' = [pending EXCEPT ![c] = "idle"]
    /\ UNCHANGED <<entry, pc, serverName, app, HACKATHON_MARKDOWN,
                   PROMPT_TEMPLATE, registry, runCount, runSite>>

\* prompt.render() runs fastmcp_python_prompt() and returns its messages
PromptRender(c) ==
    /\ Callable
    /\ pending[c] = "render"
    /\ log' = Append(log, [client |-> c, op |-> "render",
                            raised |-> PROMPT_TEMPLATE = Undefined,
                            result |-> fastmcp_python_prompt])
    /\ pending' = [pending EXCEPT ![c] = "idle"]
    /\ UNCHANGED <<entry, pc, serverName, app, HACKATHON_MARKDOWN,
                   PROMPT_TEMPLATE, registry, runCount, runSite>>

Next ==
    \/ MainImport
    \/ TestImport
    \/ ServerApp
    \/ ServerMarkdown
    \/ ServerTemplate
    \/ ServerResource
    \/ ServerPrompt
    \/ ServerGuard
    \/ ServerRun
    \/ MainGuard
    \/ MainRun
    \/ Shutdown
    \/ TestDone
    \/ \E c \in Clients : Call(c, "read")
    \/ \E c \in Clients : Call(c, "render")
    \/ \E c \in Clients : ResourceRead(c)
    \/ \E c \in Clients : PromptRender(c)

Spec == Init /\ [][Next]_vars

(* ------------------------------ properties ----------------------------- *)

\* The server module body has been executed through line 175: the app, both
\* texts and both registrations exist.
StartupDone ==
    pc \notin {"main:3", "test:5", "server:13", "server:15", "server:134",
               "server:149", "server:160"}

AppConstructed == pc \notin {"main:3", "test:5", "server:13"}

AllLoaded ==
    /\ HACKATHON_MARKDOWN = HackathonMarkdownText
    /\ PROMPT_TEMPLATE = PromptTemplateText

AllRegistered == registry = << ResourceDescriptor, PromptDescriptor >>

Reads == {i \in DOMAIN log : log[i].op = "read"}

Renders == {i \in DOMAIN log : log[i].op = "render"}

\* C1: every read of the resource registered under
\* "resource://hackathon-overview" returns exactly the text bound to
\* HACKATHON_MARKDOWN at startup, whatever calls came before it, so the n-th
\* read returns the same text as the first.
C1_ReadReturnsLoadedText ==
    \A i \in Reads :
        /\ ~log[i].raised
        /\ log[i].result = HackathonMarkdownText
        /\ \A j \in Reads : log[j].result = log[i].result

\* a read, then a render, then another read have completed
C1_Witness ==
    \E i, j, k \in DOMAIN log :
        /\ i < j /\ j < k
        /\ log[i].op = "read" /\ log[j].op = "render" /\ log[k].op = "read"

\* C2: every render of the prompt registered under "fastmcp-python-starter"
\* returns exactly two messages: an "assistant" message first, then a "user"
\* message whose text is PROMPT_TEMPLATE unchanged.
C2_RenderTwoMessages ==
    \A i \in Renders :
        /\ ~log[i].raised
        /\ Len(log[i].result) = 2
        /\ log[i].result[1].role = "assistant"
        /\ log[i].result[2].role = "user"
        /\ log[i].result[2].content.text = PromptTemplateText

\* the prompt has been rendered twice, with a read in between
C2_Witness ==
    \E i, j, k \in DOMAIN log :
        /\ i < j /\ j < k
        /\ log[i].op = "render" /\ log[j].op = "read" /\ log[k].op = "render"

\* C6: after startup the registry lists exactly one entry for
\* "resource://hackathon-overview", and that entry has the display name
\* "Hackathon Overview" and the content type "text/markdown".
C6_OverviewListedOnce ==
    StartupDone =>
        /\ Cardinality({i \in DOMAIN registry :
                            registry[i].identifier = ResourceUri}) = 1
        /\ \A i \in DOMAIN registry :
               registry[i].identifier = ResourceUri =>
                   /\ registry[i].name = "Hackathon Overview"
                   /\ registry[i].mime_type = "text/markdown"

\* the runtime is serving and both registrations are listed
C6_Witness ==
    /\ pc = "serving"
    /\ Len(registry) = 2
    /\ \E i \in DOMAIN registry : registry[i].identifier = ResourceUri

\* The entities built at startup: the registered descriptors with their
\* metadata, the two texts, and the application handle.
Entities == <<registry, HACKATHON_MARKDOWN, PROMPT_TEMPLATE, app>>

\* C8: once startup has finished no step changes the registered descriptors,
\* their metadata or the texts, under any interleaving of calls.
C8_ReadOnlyAfterStartup == [][StartupDone => Entities' = Entities]_vars

\* two calls are in flight at once after an earlier call has completed
C8_Witness ==
    /\ StartupDone
    /\ Len(log) >= 1
    /\ \E c, d \in Clients : c # d /\ pending[c] = "read" /\ pending[d] = "render"

\* C9: in every state after the app is constructed its name is APP_NAME
\* ("fastmcp-hackathon") and its instructions are APP_DESCRIPTION.
C9_AppMetadata ==
    AppConstructed =>
        /\ app.name = APP_NAME
        /\ app.name = "fastmcp-hackathon"
        /\ app.instructions = APP_DESCRIPTION

\* the process has run to its end after serving calls
C9_Witness ==
    /\ pc = "exit"
    /\ Len(log) >= 2
    /\ app = NewApp

Served == log # << >> \/ InFlight > 0

\* C10: the texts are bound before any endpoint is registered, everything is
\* loaded and registered before app.run() is started or any call is served,
\* and when the process is started on main.py or on server.py, app.run() is
\* started exactly once: never twice, and before any call is served and
\* before the process ends.
C10_StartupOrder ==
    /\ registry # << >> => AllLoaded
    /\ (runCount > 0 \/ Callable \/ Served) => (AllLoaded /\ AllRegistered)
    /\ \A i \in DOMAIN log : ~log[i].raised
    /\ entry \in {"main.py", "server.py"} =>
           /\ runCount <= 1
           /\ Served => runCount = 1
           /\ pc = "exit" => runCount = 1

\* started through main.py, the server has served calls and shut down
C10_Witness ==
    /\ entry = "main.py"
    /\ pc = "exit"
    /\ runCount = 1
    /\ Len(log) >= 1

====
